---- MODULE Spec2Model ----
(***************************************************************************)
(* Model of the precosteo report generator:                                *)
(*   src/MODULES/CREATE_PRECOSTEO_PDF.py  (CreatePrecostoPDF)              *)
(*   src/MODULES/CREATE_RESUME.py         (CreateResume)                   *)
(*                                                                         *)
(* Lengths are in tenths of a millimetre, so that 5.5 mm is the integer 55 *)
(* and the Letter page height 279.4 mm is 2794.  Every cursor position the *)
(* model reaches is a multiple of 0.5 mm, hence never equal to the bottom  *)
(* limit 251.4 mm: the float comparisons of the code and the integer       *)
(* comparisons of the model agree.                                         *)
(*                                                                         *)
(* A DataFrame is [cols, index, data]: the column names in order, the row  *)
(* labels in order, and one sequence of cells per row.  Filtering keeps    *)
(* the labels, as pandas does.                                             *)
(***************************************************************************)
EXTENDS Integers, Sequences, FiniteSets, TLC

VARIABLES
    pc,             \* position of the running operation
    bd,             \* the ledger passed by the caller
    fecha_inicio,   \* caller-supplied start of the range (a cell)
    fecha_fin,      \* caller-supplied end of the range (a cell)
    bd_filtrado,    \* PDF path: result of filter_bd_by_range / the exclusion
    err,            \* exception propagating out of the running operation
    y,              \* canvas: vertical cursor
    page,           \* canvas: current page number
    auto_page_break,\* canvas: automatic page-break flag
    b_margin,       \* canvas: bottom margin
    old_apb,        \* _write_section_table: saved flag
    old_bm,         \* _write_section_table: saved bottom margin
    row_i,          \* _write_section_table: position of the next row to draw
    total_general,  \* _write_section_table: running total
    drawn,          \* rows committed to the canvas, in drawing order
    headers,        \* pages on which the table header has been drawn, in order
    total_printed,  \* the value printed in the total row, or NotPrinted
    df_range,       \* summary path: result of filter_by_date
    service_calls,  \* summary path: calls made to the generative-text service
    resume,         \* summary path: what generate_resume returned
    nb,             \* the running call of _nb_lines: its arguments and locals
    lug,            \* the running call of _infer_lugares_text
    td              \* the running call of _to_date

vars == <<pc, bd, fecha_inicio, fecha_fin, bd_filtrado, err, y, page,
          auto_page_break, b_margin, old_apb, old_bm, row_i, total_general,
          drawn, headers, total_printed, df_range, service_calls, resume,
          nb, lug, td>>

(***************************************************************************)
(* Bounds of the model.                                                    *)
(***************************************************************************)
MaxRows == 2

(***************************************************************************)
(* Cells.  Every cell is a record of one shape:                            *)
(*   k = "none"      None                                                  *)
(*   k = "nan"       float NaN (an empty spreadsheet cell)                 *)
(*   k = "num"       the number a                                          *)
(*   k = "text"      the string s (never a three-part numeric string)      *)
(*   k = "slash"     the string "a/b/c"    k = "dash"  the string "a-b-c"  *)
(*   k = "dot"       the string "a.b.c"                                    *)
(*   k = "date"      datetime.date(a, b, c)                                *)
(*   k = "datetime"  a pandas Timestamp: datetime(a, b, c) and t seconds    *)
(*                   of the day after midnight                             *)
(*   k = "desc"      a description: w is its "\n"-separated parts, each    *)
(*                   the sequence of the widths of its words               *)
(*   k = "str"       a string given character by character: w is the     *)
(*                   sequence of its characters                            *)
(* Numeric parts are written in decimal without sign; a part is written    *)
(* with four digits exactly when its value is in 1000..9999.               *)
(***************************************************************************)
Cell(k, s, a, b, c, w) ==
    [k |-> k, s |-> s, a |-> a, b |-> b, c |-> c, w |-> w, t |-> 0]
NoneCell == Cell("none", "", 0, 0, 0, <<>>)
NaN == Cell("nan", "", 0, 0, 0, <<>>)
Num(n) == Cell("num", "", n, 0, 0, <<>>)
Txt(s) == Cell("text", s, 0, 0, 0, <<>>)
DS(sep, a, b, c) == Cell(sep, "", a, b, c, <<>>)
DateObj(yy, mm, dd) == Cell("date", "", yy, mm, dd, <<>>)
\* pd.Timestamp(yy, mm, dd, hh, mi)
Timestamp(yy, mm, dd, hh, mi) ==
    [Cell("datetime", "", yy, mm, dd, <<>>) EXCEPT !.t = hh * 3600 + mi * 60]
Desc(w) == Cell("desc", "", 0, 0, 0, w)
Str(chars) == Cell("str", "", 0, 0, 0, chars)

(***************************************************************************)
(* Calendar dates: [y, m, d], None is NoDate.                              *)
(***************************************************************************)
NoDate == [y |-> 0, m |-> 0, d |-> 0]
IsLeap(yy) == (yy % 4 = 0 /\ yy % 100 # 0) \/ yy % 400 = 0
DaysInMonth(yy, mm) ==
    IF mm \in {4, 6, 9, 11} THEN 30
    ELSE IF mm = 2 THEN (IF IsLeap(yy) THEN 29 ELSE 28)
    ELSE 31
ValidDate(yy, mm, dd) ==
    /\ yy \in 1..9999
    /\ mm \in 1..12
    /\ dd >= 1 /\ dd <= DaysInMonth(yy, mm)
\* datetime.date(yy, mm, dd); NoDate stands for the ValueError it raises,
\* which every caller catches.
DateCtor(yy, mm, dd) ==
    IF ValidDate(yy, mm, dd) THEN [y |-> yy, m |-> mm, d |-> dd] ELSE NoDate
DateOrd(dt) == dt.y * 10000 + dt.m * 100 + dt.d
DateLE(d1, d2) == DateOrd(d1) <= DateOrd(d2)
FourDigits(n) == n >= 1000 /\ n <= 9999

\* datetime.strptime(s, fmt).date() for the five formats of _to_date;
\* NoDate when strptime raises.  %Y takes exactly four digits, %d and %m
\* one or two.
Strptime(cell, fmt) ==
    CASE fmt = "%Y-%m-%d" ->
            IF cell.k = "dash" /\ FourDigits(cell.a) /\ cell.b < 100 /\ cell.c < 100
            THEN DateCtor(cell.a, cell.b, cell.c) ELSE NoDate
      [] fmt = "%d/%m/%Y" ->
            IF cell.k = "slash" /\ FourDigits(cell.c) /\ cell.a < 100 /\ cell.b < 100
            THEN DateCtor(cell.c, cell.b, cell.a) ELSE NoDate
      [] fmt = "%m/%d/%Y" ->
            IF cell.k = "slash" /\ FourDigits(cell.c) /\ cell.a < 100 /\ cell.b < 100
            THEN DateCtor(cell.c, cell.a, cell.b) ELSE NoDate
      [] fmt = "%d-%m-%Y" ->
            IF cell.k = "dash" /\ FourDigits(cell.c) /\ cell.a < 100 /\ cell.b < 100
            THEN DateCtor(cell.c, cell.b, cell.a) ELSE NoDate
      [] fmt = "%Y/%m/%d" ->
            IF cell.k = "slash" /\ FourDigits(cell.a) /\ cell.b < 100 /\ cell.c < 100
            THEN DateCtor(cell.a, cell.b, cell.c) ELSE NoDate
      [] OTHER -> NoDate

\* Variant: the month-first format is tried before the day-first one.
Formats_month_first == <<"%Y-%m-%d", "%m/%d/%Y", "%d/%m/%Y", "%d-%m-%Y", "%Y/%m/%d">>

Formats == <<"%Y-%m-%d", "%d/%m/%Y", "%m/%d/%Y", "%d-%m-%Y", "%Y/%m/%d">>

\* The last attempt of _to_date: three numeric parts, four-digit year last.
ThreePartHeuristic(cell) ==
    IF FourDigits(cell.c)
    THEN IF cell.a > 12 THEN DateCtor(cell.c, cell.b, cell.a)
         ELSE IF cell.b > 12 THEN DateCtor(cell.c, cell.a, cell.b)
         ELSE DateCtor(cell.c, cell.b, cell.a)
    ELSE NoDate

\* a datetime gives x.date(): its time of day is dropped
_to_date(cell) ==
    CASE cell.k = "none" -> NoDate
      [] cell.k = "datetime" -> [y |-> cell.a, m |-> cell.b, d |-> cell.c]
      [] cell.k = "date" -> [y |-> cell.a, m |-> cell.b, d |-> cell.c]
      [] cell.k = "nan" -> NoDate
      [] cell.k \in {"slash", "dash", "dot"} ->
            LET hits == {i \in DOMAIN Formats : Strptime(cell, Formats[i]) # NoDate}
            IN  IF hits # {}
                THEN Strptime(cell, Formats[CHOOSE i \in hits : \A j \in hits : i <= j])
                ELSE ThreePartHeuristic(cell)
      [] OTHER -> NoDate

(***************************************************************************)
(* Column names.  str.strip() and str.upper() on the names the model uses: *)
(* every name not listed is already stripped, respectively upper-case.     *)
(***************************************************************************)
NoCol == "<None>"
StripName(c) ==
    CASE c = " FECHA " -> "FECHA"
      [] c = " Lugar " -> "Lugar"
      [] c = "ID_ITEM " -> "ID_ITEM"
      [] c = " VALOR_TOTAL" -> "VALOR_TOTAL"
      [] OTHER -> c
UpperName(c) ==
    CASE c = "fecha" -> "FECHA"
      [] c = "Fecha" -> "FECHA"
      [] c = "Lugar" -> "LUGAR"
      [] c = "ubicación" -> "UBICACIÓN"
      [] c = "id_item" -> "ID_ITEM"
      [] c = "Item" -> "ITEM"
      [] c = "actividad" -> "ACTIVIDAD"
      [] c = "valor_total" -> "VALOR_TOTAL"
      [] c = "fecha_inicio" -> "FECHA_INICIO"
      [] c = "fecha_fin" -> "FECHA_FIN"
      [] OTHER -> c

Max(S) == CHOOSE m \in S : \A n \in S : n <= m
Min(S) == CHOOSE m \in S : \A n \in S : m <= n

\* U = {c.upper(): c for c in cols} with cols the stripped names: the value
\* under key is the stripped name of the LAST column whose key it is.
UMap(cols, key) ==
    LET hits == {i \in DOMAIN cols : UpperName(StripName(cols[i])) = key}
    IN  IF hits = {} THEN NoCol ELSE StripName(cols[Max(hits)])

\* for key in keys: if key in U: return U[key]
FirstKey(cols, keys) ==
    LET hits == {i \in DOMAIN keys : UMap(cols, keys[i]) # NoCol}
    IN  IF hits = {} THEN NoCol ELSE UMap(cols, keys[Min(hits)])

FechaUnicaKeys == <<"FECHA", "FECHA_ACTIVIDAD", "FECHA_EJECUCION", "FECHA EJECUCION", "DATE">>
InicioKeys == <<"FECHA_INICIO", "INICIO", "FECHA INICIO", "START", "DESDE">>
FinKeys == <<"FECHA_FIN", "FIN", "FECHA FIN", "END", "HASTA">>

\* Variant: a single date column wins over a start/end pair.
_detect_date_columns_single_first(df) ==
    LET fecha_unica == FirstKey(df.cols, FechaUnicaKeys)
        inicio == FirstKey(df.cols, InicioKeys)
        fin == FirstKey(df.cols, FinKeys)
    IN  IF fecha_unica # NoCol
        THEN <<fecha_unica, NoCol, NoCol>>
        ELSE IF inicio # NoCol /\ fin # NoCol THEN <<NoCol, inicio, fin>>
        ELSE <<NoCol, NoCol, NoCol>>

\* (col_fecha_unica, col_inicio, col_fin)
_detect_date_columns(df) ==
    LET fecha_unica == FirstKey(df.cols, FechaUnicaKeys)
        inicio == FirstKey(df.cols, InicioKeys)
        fin == FirstKey(df.cols, FinKeys)
    IN  IF inicio # NoCol /\ fin # NoCol
        THEN <<NoCol, inicio, fin>>
        ELSE <<fecha_unica, NoCol, NoCol>>

\* pick(*candidates) of _detect_table_columns
pick(cols, candidates) ==
    FirstKey(cols, [i \in DOMAIN candidates |-> UpperName(candidates[i])])

_detect_table_columns(df) ==
    [item |-> pick(df.cols, <<"ID_ITEM", "ID ÍTEM", "ID_ITEM ", "ITEM", "ÍTEM", "COD_ITEM">>),
     descripcion |-> pick(df.cols, <<"ACTIVIDAD", "DESCRIPCION", "DESCRIPCIÓN", "DESCRIPCION_ACTIVIDAD">>),
     unidad |-> pick(df.cols, <<"UNIDAD_MEDIDA", "UNIDAD", "UND">>),
     cantidad |-> pick(df.cols, <<"CANTIDAD", "CANT">>),
     v_unit |-> pick(df.cols, <<"VALOR_UNITARIO", "VR_UNITARIO", "VLR_UNITARIO", "PRECIO_UNITARIO">>),
     v_total |-> pick(df.cols, <<"VALOR_TOTAL", "VR_TOTAL", "VLR_TOTAL", "TOTAL">>)]

(***************************************************************************)
(* DataFrames.                                                             *)
(***************************************************************************)
HasColumn(df, name) == \E j \in DOMAIN df.cols : df.cols[j] = name
\* position of the column called name; 0 when df[name] raises KeyError
ColIndex(df, name) ==
    IF HasColumn(df, name) THEN Min({j \in DOMAIN df.cols : df.cols[j] = name}) ELSE 0
NRows(df) == Len(df.data)
SortedSeq(S) ==
    CHOOSE q \in [1..Cardinality(S) -> S] : \A i, j \in 1..Cardinality(S) : i < j => q[i] < q[j]
\* df[mask]: the rows at the positions in keep, in order, labels kept
TakeRows(df, keep) ==
    LET pos == SortedSeq(keep)
    IN  [cols |-> df.cols,
         index |-> [n \in 1..Len(pos) |-> df.index[pos[n]]],
         data |-> [n \in 1..Len(pos) |-> df.data[pos[n]]]]
EmptyDF == [cols |-> <<>>, index |-> <<>>, data |-> <<>>]

(***************************************************************************)
(* filter_bd_by_range.  The result is [err, df]: err is "none" and df the  *)
(* returned frame, or err is the exception raised.                         *)
(***************************************************************************)
\* Variant: the bounds are put in order before the comparison.
KeepSingle_ordered(dt, ini, fin) ==
    /\ dt # NoDate
    /\ \/ DateLE(ini, dt) /\ DateLE(dt, fin)
       \/ DateLE(fin, dt) /\ DateLE(dt, ini)

\* Variant: the end of the range is exclusive.
KeepSingle_exclusive(dt, ini, fin) ==
    dt # NoDate /\ DateLE(ini, dt) /\ DateOrd(dt) < DateOrd(fin)

\* df["_FECHA_"].notna() & (df["_FECHA_"] >= ini) & (df["_FECHA_"] <= fin)
KeepSingle(dt, ini, fin) ==
    dt # NoDate /\ DateLE(ini, dt) /\ DateLE(dt, fin)

\* notna of both & (ini <= FIN_BD) & (fin >= INI_BD)
KeepPair(d_ini, d_fin, ini, fin) ==
    d_ini # NoDate /\ d_fin # NoDate /\ DateLE(ini, d_fin) /\ DateLE(d_ini, fin)

Returned(df) == [err |-> "none", df |-> df]
Raised(e) == [err |-> e, df |-> EmptyDF]

\* Variant: a ledger without date columns yields no rows.
NoDateColumns_empty(df) == Returned(TakeRows(df, {}))

\* the last return of filter_bd_by_range: no date column was detected
NoDateColumns(df) == Returned(df)

\* The ledger is always a frame here: the None passed through by lines
\* 305-306 is not among the inputs.
filter_bd_by_range(bd_df, f_inicio, f_fin) ==
    LET ini == _to_date(f_inicio)
        fin == _to_date(f_fin)
        det == _detect_date_columns(bd_df)
        col_fecha == det[1]
        col_ini == det[2]
        col_fin == det[3]
    IN  IF ini = NoDate \/ fin = NoDate THEN Returned(bd_df)
        ELSE IF col_fecha # NoCol
        THEN LET j == ColIndex(bd_df, col_fecha)
             IN  IF j = 0 THEN Raised("KeyError")
                 ELSE Returned(TakeRows(bd_df,
                        {i \in 1..NRows(bd_df) :
                            KeepSingle(_to_date(bd_df.data[i][j]), ini, fin)}))
        ELSE IF col_ini # NoCol /\ col_fin # NoCol
        THEN LET j1 == ColIndex(bd_df, col_ini)
                 j2 == ColIndex(bd_df, col_fin)
             IN  IF j1 = 0 \/ j2 = 0 THEN Raised("KeyError")
                 ELSE Returned(TakeRows(bd_df,
                        {i \in 1..NRows(bd_df) :
                            KeepPair(_to_date(bd_df.data[i][j1]),
                                     _to_date(bd_df.data[i][j2]), ini, fin)}))
        ELSE NoDateColumns(bd_df)

(***************************************************************************)
(* Strings of cells: str(v) and str.strip().                               *)
(***************************************************************************)
\* str(float) of the numbers the model uses as item codes (hundredths)
FloatStr(n) ==
    CASE n = 121 -> "1.21"
      [] n = 120 -> "1.2"
      [] n = 250 -> "2.5"
      [] OTHER -> "<number>"
StripStr(s) ==
    CASE s = " 1.21 " -> "1.21"
      [] s = "1.21 " -> "1.21"
      [] s = " " -> ""
      [] OTHER -> s
StrOf(cell) ==
    CASE cell.k = "text" -> cell.s
      [] cell.k = "num" -> FloatStr(cell.a)
      [] cell.k = "nan" -> "nan"
      [] cell.k = "none" -> "None"
      [] OTHER -> "<other>"

ExcludedCode == "1.21"

\* render_precosteo, lines 625-626: the exclusion by ID_ITEM
ExcludeIdItem(df) ==
    IF HasColumn(df, "ID_ITEM")
    THEN LET j == ColIndex(df, "ID_ITEM")
         IN  TakeRows(df, {i \in 1..NRows(df) : StripStr(StrOf(df.data[i][j])) # ExcludedCode})
    ELSE df

(***************************************************************************)
(* Strings character by character: str(v), str.strip(), str.lower() and    *)
(* str.join() of _infer_lugares_text.  A character is one of U+0000 to     *)
(* U+00FF, the characters a string of this module can hold; the tables     *)
(* below are those of str.lower() and str.isspace() over that range.       *)
(***************************************************************************)
\* the characters c of U+0000..U+00FF with c.lower() != c: A-Z, then the
\* capitals U+00C0..U+00DE without the sign U+00D7
UpperLetters == <<"A", "B", "C", "D", "E", "F", "G", "H", "I", "J", "K", "L", "M", "N",
                  "O", "P", "Q", "R", "S", "T", "U", "V", "W", "X", "Y", "Z", "À", "Á",
                  "Â", "Ã", "Ä", "Å", "Æ", "Ç", "È", "É", "Ê", "Ë", "Ì", "Í", "Î", "Ï",
                  "Ð", "Ñ", "Ò", "Ó", "Ô", "Õ", "Ö", "Ø", "Ù", "Ú", "Û", "Ü", "Ý", "Þ">>
\* c.lower() of each, in the same order
LowerLetters == <<"a", "b", "c", "d", "e", "f", "g", "h", "i", "j", "k", "l", "m", "n",
                  "o", "p", "q", "r", "s", "t", "u", "v", "w", "x", "y", "z", "à", "á",
                  "â", "ã", "ä", "å", "æ", "ç", "è", "é", "ê", "ë", "ì", "í", "î", "ï",
                  "ð", "ñ", "ò", "ó", "ô", "õ", "ö", "ø", "ù", "ú", "û", "ü", "ý", "þ">>
LowerChar(ch) ==
    IF \E n \in DOMAIN UpperLetters : UpperLetters[n] = ch
    THEN LowerLetters[CHOOSE n \in DOMAIN UpperLetters : UpperLetters[n] = ch]
    ELSE ch
\* s.lower()
Lower(chars) == [n \in DOMAIN chars |-> LowerChar(chars[n])]
\* the characters c of U+0000..U+00FF with c.isspace(): U+0009..U+000D,
\* U+001C..U+001F, the blank, U+0085 and U+00A0, in that order
Whitespace == {"\t", "\n", "", "\f", "\r", "",
              "", "", "", " ", "", " "}
\* s.strip()
Strip(chars) ==
    LET solid == {n \in DOMAIN chars : chars[n] \notin Whitespace}
    IN  IF solid = {} THEN <<>> ELSE SubSeq(chars, Min(solid), Max(solid))
\* str(v) of the values of a location column
StrChars(cell) ==
    CASE cell.k = "str" -> cell.w
      [] cell.k = "nan" -> <<"n", "a", "n">>
      [] cell.k = "none" -> <<"N", "o", "n", "e">>
      [] OTHER -> <<"?">>
RECURSIVE Join(_, _)
\* sep.join(items)
Join(sep, items) ==
    IF items = <<>> THEN <<>>
    ELSE IF Len(items) = 1 THEN items[1]
    ELSE items[1] \o sep \o Join(sep, Tail(items))

(***************************************************************************)
(* _infer_lugares_text.                                                    *)
(***************************************************************************)
Preferidas ==
    <<"LUGAR_EJECUCION", "LUGAR", "LUGAR DE EJECUCIÓN", "LUGAR DE EJECUCION",
      "UBICACION", "UBICACIÓN", "DESCRIPCION_LUGAR", "DESCRIPCIÓN", "DESCRIPCION">>

\* upper_map = {str(c).strip().upper(): c for c in cols}: the value under
\* key is the LAST column whose key it is, by its own name
UpperMap(cols, key) ==
    LET hits == {i \in DOMAIN cols : UpperName(StripName(cols[i])) = key}
    IN  IF hits = {} THEN NoCol ELSE cols[Max(hits)]

\* the column the places are read from; NoCol when the frame has no column
LugaresColumn(cols) ==
    LET hits == {i \in DOMAIN Preferidas : UpperMap(cols, UpperName(Preferidas[i])) # NoCol}
    IN  IF hits # {} THEN UpperMap(cols, UpperName(Preferidas[Min(hits)]))
        ELSE IF cols # <<>> THEN cols[1]
        ELSE NoCol

\* Variant: values are told apart by their exact spelling.
DedupKey_exact(chars) == chars

\* key = s.lower()
DedupKey(chars) == Lower(chars)

RECURSIVE LugaresLoop(_, _, _, _)
\* the loop over df_lugares[col].tolist() from position i; returns items
LugaresLoop(vals, i, seen, items) ==
    IF i > Len(vals) THEN items
    ELSE LET str == Strip(StrChars(vals[i]))
         IN  IF str = <<>> \/ Lower(str) = <<"n", "a", "n">>
             THEN LugaresLoop(vals, i + 1, seen, items)
             ELSE IF DedupKey(str) \notin seen
             THEN LugaresLoop(vals, i + 1, seen \cup {DedupKey(str)}, Append(items, str))
             ELSE LugaresLoop(vals, i + 1, seen, items)

\* the values of the column called col, in row order
ColumnValues(df, col) == [i \in 1..NRows(df) |-> df.data[i][ColIndex(df, col)]]

_infer_lugares_text(df_lugares) ==
    LET col == LugaresColumn(df_lugares.cols)
    IN  IF col = NoCol THEN <<>>
        ELSE Join(<<",", " ">>, LugaresLoop(ColumnValues(df_lugares, col), 1, {}, <<>>))

(***************************************************************************)
(* Layout.  PDFLayoutConfig and the literals of _write_section_table.      *)
(***************************************************************************)
PageH == 2794           \* format "Letter": 279.4 mm
TopMargin == 240        \* top_margin
HeaderLift == 120       \* header_lift_after
FooterMargin == 280     \* footer_margin
SignatureGap == 100     \* signature_gap_before
WDesc == 780            \* w_desc
LineH == 55             \* line_h
Pad == 10               \* pad
SafetyMargin == 20      \* the 2 mm of _nb_lines
TitleGap == 80          \* self.ln(8) before the section title
TitleH == 70            \* height of the section title cell
BarH == 80              \* height of each of the three header bars
TotalH == 80            \* total_h
SignatureNeeded == 550  \* needed_space
SignatureAdvance == 450 \* self.ln(45)
TextH == 60             \* height of every cell and line of the narrative
GapCity == 20           \* self.ln(2) before the city and date
GapSenores == 60        \* self.ln(6) before "Señores:"
GapCompany == 40        \* self.ln(4) before the company name
GapResumen == 30        \* self.ln(3) before the summary
GapLugar == 40          \* self.ln(4) before the place of execution
\* get_string_width(" ") at Helvetica 10: 278 glyph units of 10 pt / 1000,
\* that is 278 * 254 / 7200 = 17653 / 1800 tenths of a millimetre (0.9807 mm)
SpaceNum == 17653
SpaceDen == 1800

\* add_page(): the cursor returns to the top margin, header() paints the
\* image at an explicit position and advances by header_lift_after.
NewPageY == TopMargin + HeaderLift

\* A canvas position is [y, page].
Pos(yy, pg) == [y |-> yy, page |-> pg]
AddPage(pos) == Pos(NewPageY, pos.page + 1)

\* cell(..., h, ln=1): under automatic mode a cell that would cross the
\* page-break trigger starts a new page first; then the cursor moves down h.
CellLn(pos, h, apb, bm) ==
    LET at == IF apb /\ pos.y + h > PageH - bm THEN AddPage(pos) ELSE pos
    IN  Pos(at.y + h, at.page)

\* cell(..., h, ln=0): the same page-break test, the cursor stays on its line.
CellStay(pos, h, apb, bm) ==
    IF apb /\ pos.y + h > PageH - bm THEN AddPage(pos) ELSE pos

\* ln(h): the cursor moves down, never to a new page.
Ln(pos, h) == Pos(pos.y + h, pos.page)

RECURSIVE MultiCell(_, _, _, _, _)
\* multi_cell(0, h, txt): one cell(..., h, ln=1) for each of the n lines the
\* text wraps into, each with the page-break test of CellLn; the empty text
\* is one line.
MultiCell(pos, h, n, apb, bm) ==
    IF n = 0 THEN pos
    ELSE IF apb /\ pos.y + h > PageH - bm
         THEN MultiCell(Ln(AddPage(pos), h), h, n - 1, apb, bm)
         ELSE MultiCell(Ln(pos, h), h, n - 1, apb, bm)

\* render_precosteo, lines 587-605: the first page, the code, the city and
\* date, "Señores:" and the company name, each on a line of its own.
Letterhead(apb, bm) ==
    LET p0 == AddPage(Pos(0, 0))
        p1 == CellLn(p0, TextH, apb, bm)
        p2 == CellLn(Ln(p1, GapCity), TextH, apb, bm)
        p3 == CellLn(Ln(p2, GapSenores), TextH, apb, bm)
    IN  MultiCell(Ln(p3, GapCompany), TextH, 1, apb, bm)

\* render_precosteo, lines 607-619: the summary in n lines and, when the
\* place of execution is not empty (k > 0), its label and its k lines.
Narrative(n, k, apb, bm) ==
    LET p0 == MultiCell(Ln(Letterhead(apb, bm), GapResumen), TextH, n, apb, bm)
    IN  IF k = 0 THEN p0
        ELSE MultiCell(CellStay(Ln(p0, GapLugar), TextH, apb, bm), TextH, k, apb, bm)

\* _draw_table_header(): two bars and the row of column headers.
_draw_table_header(pos, apb, bm) ==
    CellLn(CellLn(CellLn(pos, BarH, apb, bm), BarH, apb, bm), BarH, apb, bm)

(***************************************************************************)
(* _nb_lines: the greedy word-wrap count.  A text is its "\n"-separated    *)
(* parts, each the sequence of the widths of its words; <<>> is "".        *)
(* line_w is the width of the line being filled, 0 for the empty line, in  *)
(* units of 1/SpaceDen of a tenth of a millimetre, in which the width of a *)
(* blank is the integer SpaceNum.                                          *)
(***************************************************************************)
\* the width of the word wd alone on a line, in the units of line_w
WordWidth(wd) == SpaceDen * wd
\* w - 2 in the units of line_w
WidthLimit(w) == SpaceDen * (w - SafetyMargin)

\* the width of (line + " " + wd).strip(); a word of width 0 is the empty
\* word that two consecutive spaces produce
TestWidth(line_w, wd) ==
    IF line_w = 0 THEN WordWidth(wd)
    ELSE IF wd = 0 THEN line_w
    ELSE line_w + SpaceNum + WordWidth(wd)

RECURSIVE WrapPart(_, _, _, _)
\* the for-loop over the words of one part from position i; returns lines
WrapPart(words, i, line_w, w) ==
    IF i > Len(words) THEN 1
    ELSE IF TestWidth(line_w, words[i]) <= WidthLimit(w)
         THEN WrapPart(words, i + 1, TestWidth(line_w, words[i]), w)
         ELSE 1 + WrapPart(words, i + 1, WordWidth(words[i]), w)

RECURSIVE SumParts(_, _, _)
SumParts(parts, i, w) ==
    IF i > Len(parts) THEN 0
    ELSE (IF parts[i] = <<>> THEN 1 ELSE WrapPart(parts[i], 1, 0, w))
         + SumParts(parts, i + 1, w)

_nb_lines(w, parts) ==
    IF parts = <<>> THEN 1
    ELSE LET total == SumParts(parts, 1, w) IN IF total < 1 THEN 1 ELSE total

(***************************************************************************)
(* Floats: [nan, v], v in whole pesos.                                     *)
(***************************************************************************)
Flt(n) == [nan |-> FALSE, v |-> n]
FNaN == [nan |-> TRUE, v |-> 0]
FAdd(p, q) == IF p.nan \/ q.nan THEN FNaN ELSE Flt(p.v + q.v)
NotPrinted == [nan |-> FALSE, v |-> -1]

\* float(s) of the strings the model uses as totals; FALSE: ValueError
TextIsFloat(s) == s \in {"1500", " 700 "}
TextFloat(s) == IF s = "1500" THEN 1500 ELSE 700

\* float(vtotal): [ok, f]; ok is FALSE when float() raises
ParseFloat(cell) ==
    CASE cell.k = "num" -> [ok |-> TRUE, f |-> Flt(cell.a)]
      [] cell.k = "nan" -> [ok |-> TRUE, f |-> FNaN]
      [] cell.k = "text" /\ TextIsFloat(cell.s) -> [ok |-> TRUE, f |-> Flt(TextFloat(cell.s))]
      [] OTHER -> [ok |-> FALSE, f |-> Flt(0)]

\* Variant: the parsed value replaces the running total.
Accumulate_assign(total, vtotal) ==
    IF ParseFloat(vtotal).ok THEN ParseFloat(vtotal).f ELSE total

\* the try/except around total_general += float(vtotal)
Accumulate(total, vtotal) ==
    IF ParseFloat(vtotal).ok THEN FAdd(total, ParseFloat(vtotal).f) ELSE total

\* row[colmap[role]] if colmap[role] else "" ; [err, v]
RowValue(df, i, col) ==
    IF col = NoCol THEN [err |-> "none", v |-> Txt("")]
    ELSE IF ColIndex(df, col) = 0 THEN [err |-> "KeyError", v |-> Txt("")]
    ELSE [err |-> "none", v |-> df.data[i][ColIndex(df, col)]]

\* str.strip() of a description: the blanks and line ends at both ends go.
\* A part whose words are all empty is made of blanks only.
BlankPart(words) == \A k \in DOMAIN words : words[k] = 0

RECURSIVE LStripWords(_)
LStripWords(words) ==
    IF words # <<>> /\ Head(words) = 0 THEN LStripWords(Tail(words)) ELSE words

RECURSIVE RStripWords(_)
RStripWords(words) ==
    IF words # <<>> /\ words[Len(words)] = 0
    THEN RStripWords(SubSeq(words, 1, Len(words) - 1))
    ELSE words

RECURSIVE LStripText(_)
LStripText(parts) ==
    IF parts = <<>> THEN <<>>
    ELSE IF BlankPart(Head(parts)) THEN LStripText(Tail(parts))
    ELSE <<LStripWords(Head(parts))>> \o Tail(parts)

RECURSIVE RStripText(_)
RStripText(parts) ==
    IF parts = <<>> THEN <<>>
    ELSE IF BlankPart(parts[Len(parts)])
         THEN RStripText(SubSeq(parts, 1, Len(parts) - 1))
    ELSE SubSeq(parts, 1, Len(parts) - 1) \o <<RStripWords(parts[Len(parts)])>>

StripText(parts) == RStripText(LStripText(parts))

\* desc = str(row[colmap["descripcion"]]).strip()
StripDesc(cell) == [cell EXCEPT !.w = StripText(cell.w)]

\* row_h = (line_h * lines) + (2 * pad)
RowHeight(desc) == LineH * _nb_lines(WDesc - 2 * Pad, desc.w) + 2 * Pad

\* Variant: the test forgets the height of what is about to be drawn.
NeedsBreak_no_height(yy, h, bm) == yy > PageH - bm

\* the manual page-break test before a row or the total row of height h
NeedsBreak(yy, h, bm) == yy + h > PageH - bm

\* Variant: the new page starts without the table header.
BreakPage_no_header(pos, apb, bm) ==
    [y |-> AddPage(pos).y, page |-> AddPage(pos).page, hdr |-> <<>>]

\* self.add_page(); _draw_table_header(): the position below the redrawn
\* header, and in hdr the page the header was drawn on
BreakPage(pos, apb, bm) ==
    LET at == _draw_table_header(AddPage(pos), apb, bm)
    IN  [y |-> at.y, page |-> at.page, hdr |-> <<at.page>>]

\* no page break: the position as it is, no header drawn
StayOnPage(pos) == [y |-> pos.y, page |-> pos.page, hdr |-> <<>>]

\* Variant: the saved value is put back only when no exception is under way.
Restore_on_success(saved, current, e) == IF e = "none" THEN saved ELSE current

\* the finally clause: the saved value is put back whether or not an
\* exception is under way
Restore(saved, current, e) == saved

(***************************************************************************)
(* Summary path (CreateResume).                                            *)
(***************************************************************************)
\* The year of the clock, which the parser of pd.to_datetime reads to place
\* a two-digit year in a century.
ClockYear == 2026

\* A two-digit year is put in the century of the clock and then moved to
\* lie between 50 years before and 49 years after the clock.
ConvertYear(yy) ==
    LET cy == yy + (ClockYear \div 100) * 100
    IN  IF cy >= ClockYear + 50 THEN cy - 100
        ELSE IF cy < ClockYear - 50 THEN cy + 100
        ELSE cy

TwoDigits(n) == n >= 0 /\ n <= 99
DateString(cell) == cell.k \in {"slash", "dash", "dot"}

\* A pandas Timestamp: the day [y, m, d], the seconds of the day after
\* midnight and the nanoseconds of the second.  NaT is the missing one.
NaT == [y |-> 0, m |-> 0, d |-> 0, sec |-> 0, ns |-> 0]
Stamp(date, sec, ns) ==
    IF date = NoDate THEN NaT
    ELSE [y |-> date.y, m |-> date.m, d |-> date.d, sec |-> sec, ns |-> ns]
\* t1 <= t2 of two Timestamps that are not NaT
StampLE(t1, t2) ==
    \/ DateOrd(t1) < DateOrd(t2)
    \/ /\ DateOrd(t1) = DateOrd(t2)
       /\ (t1.sec < t2.sec \/ (t1.sec = t2.sec /\ t1.ns <= t2.ns))

\* pd.to_datetime(v, errors="coerce", dayfirst=False) of one value.  A
\* Timestamp keeps its time of day, and a date or a string without a time
\* is the midnight of its day.  With the year last the month is read
\* first, unless only the day-first reading is a date; with the year first
\* the order is year, month, day.  Three short numbers: a first number over
\* 31 is the year, else the last one is, taken as a two-digit year.  A
\* number is a count of nanoseconds from 1970-01-01, here always within a
\* day of it.
ToDatetime(cell) ==
    CASE cell.k \in {"date", "datetime"} ->
            Stamp([y |-> cell.a, m |-> cell.b, d |-> cell.c], cell.t, 0)
      [] DateString(cell) /\ FourDigits(cell.c) ->
            IF ValidDate(cell.c, cell.a, cell.b)
            THEN Stamp(DateCtor(cell.c, cell.a, cell.b), 0, 0)
            ELSE Stamp(DateCtor(cell.c, cell.b, cell.a), 0, 0)
      [] DateString(cell) /\ ~FourDigits(cell.c) /\ FourDigits(cell.a) ->
            Stamp(DateCtor(cell.a, cell.b, cell.c), 0, 0)
      [] DateString(cell) /\ TwoDigits(cell.a) /\ TwoDigits(cell.b) /\ TwoDigits(cell.c) ->
            IF cell.a > 31 THEN Stamp(DateCtor(ConvertYear(cell.a), cell.b, cell.c), 0, 0)
            ELSE IF cell.a > 12 THEN Stamp(DateCtor(ConvertYear(cell.c), cell.b, cell.a), 0, 0)
            ELSE Stamp(DateCtor(ConvertYear(cell.c), cell.a, cell.b), 0, 0)
      [] cell.k = "num" ->
            Stamp(IF cell.a >= 0 THEN DateCtor(1970, 1, 1) ELSE DateCtor(1969, 12, 31),
                  (cell.a \div 1000000000) % 86400, cell.a % 1000000000)
      [] OTHER -> NaT

\* The values pd.to_datetime passes over when it looks for the first value
\* of a column: None, NaN and the empty string.
IsNullCell(cell) == cell.k \in {"none", "nan"} \/ (cell.k = "text" /\ cell.s = "")
IsStrCell(cell) == cell.k \in {"text", "slash", "dash", "dot", "desc", "str"}

\* the position of the first value of the column that is not null, 0: none
FirstNonNull(col) ==
    IF \A i \in DOMAIN col : IsNullCell(col[i]) THEN 0
    ELSE CHOOSE i \in DOMAIN col :
            ~IsNullCell(col[i]) /\ \A q \in 1..(i - 1) : IsNullCell(col[q])

\* The format pd.to_datetime guesses from one string: the separator and the
\* order in which the string was read, when it reads as a date with a
\* four-digit year.  No format is guessed from a two-digit year.
NoFormat == [sep |-> "", order |-> ""]
GuessFormat(cell) ==
    IF DateString(cell) /\ ToDatetime(cell) # NaT
    THEN IF FourDigits(cell.c)
         THEN [sep |-> cell.k,
               order |-> IF ValidDate(cell.c, cell.a, cell.b) THEN "mdy" ELSE "dmy"]
         ELSE IF FourDigits(cell.a) THEN [sep |-> cell.k, order |-> "ymd"]
         ELSE NoFormat
    ELSE NoFormat

\* One value of a column read with the guessed format: a datetime is kept
\* with its time of day, a string must have the separator and the order of
\* the format, and anything else is NaT.
ParseWith(fmt, cell) ==
    CASE cell.k \in {"date", "datetime"} ->
            Stamp([y |-> cell.a, m |-> cell.b, d |-> cell.c], cell.t, 0)
      [] cell.k = fmt.sep /\ fmt.order = "mdy" /\ FourDigits(cell.c) ->
            Stamp(DateCtor(cell.c, cell.a, cell.b), 0, 0)
      [] cell.k = fmt.sep /\ fmt.order = "dmy" /\ FourDigits(cell.c) ->
            Stamp(DateCtor(cell.c, cell.b, cell.a), 0, 0)
      [] cell.k = fmt.sep /\ fmt.order = "ymd" /\ FourDigits(cell.a) ->
            Stamp(DateCtor(cell.a, cell.b, cell.c), 0, 0)
      [] OTHER -> NaT

\* pd.to_datetime(s, errors="coerce", dayfirst=False) of a column: when the
\* first value that is not null is a string a format can be guessed from,
\* every value is read with that one format; otherwise each value is read
\* on its own.
_to_datetime_series(col) ==
    LET i == FirstNonNull(col)
        fmt == IF i = 0 \/ ~IsStrCell(col[i]) THEN NoFormat ELSE GuessFormat(col[i])
    IN  [r \in DOMAIN col |->
            IF fmt = NoFormat THEN ToDatetime(col[r]) ELSE ParseWith(fmt, col[r])]

\* Variant: only the first required column is looked for.
_validate_columns_first_only(df, required) ==
    IF ~HasColumn(df, required[1]) THEN "KeyError" ELSE "none"

\* missing = [c for c in required if c not in df.columns]
_validate_columns(df, required) ==
    IF \E i \in DOMAIN required : ~HasColumn(df, required[i]) THEN "KeyError" ELSE "none"

\* mask = (df["__FECHA_DT__"] >= fi) & (df["__FECHA_DT__"] <= ff); NaT compares False
MaskResume(dt, fi, ff) == dt # NaT /\ StampLE(fi, dt) /\ StampLE(dt, ff)

\* the exclusion of filter_by_date: ID_ITEM not in excluded_id_items
ExcludeResume(df) ==
    IF HasColumn(df, "ID_ITEM")
    THEN LET j == ColIndex(df, "ID_ITEM")
         IN  TakeRows(df, {i \in 1..NRows(df) : StripStr(StrOf(df.data[i][j])) # ExcludedCode})
    ELSE df

\* Variant: the range is refused only when both ends are unparsable.
NaTRange_both(fi, ff) == fi = NaT /\ ff = NaT

\* if pd.isna(fi) or pd.isna(ff)
NaTRange(fi, ff) == fi = NaT \/ ff = NaT

filter_by_date(df, f_inicio, f_fin) ==
    IF _validate_columns(df, <<"FECHA", "ACTIVIDAD">>) # "none" THEN Raised("KeyError")
    ELSE LET j == ColIndex(df, "FECHA")
             fi == ToDatetime(f_inicio)
             ff == ToDatetime(f_fin)
         IN  IF j = 0 THEN Raised("KeyError")
             ELSE IF NaTRange(fi, ff) THEN Raised("ValueError")
             ELSE LET fecha_dt == _to_datetime_series([i \in 1..NRows(df) |-> df.data[i][j]])
                  IN  Returned(ExcludeResume(TakeRows(df,
                        {i \in 1..NRows(df) : MaskResume(fecha_dt[i], fi, ff)})))

\* df.empty
IsEmpty(df) == NRows(df) = 0 \/ Len(df.cols) = 0

(***************************************************************************)
(* Inputs.                                                                 *)
(***************************************************************************)
ShortDesc == Desc(<< <<200, 300>> >>)                      \* one line
TwoLineDesc == Desc(<< <<300, 300, 300>> >>)               \* wraps once
TallDesc == Desc([n \in 1..20 |-> <<200>>])                \* 20 explicit lines
HugeDesc == Desc(<< [n \in 1..36 |-> 700] >>)              \* 36 words that fill a line each
PaddedDesc == Desc(<< <<>>, <<0, 200, 300>>, <<>> >>)      \* "\n W W\n": one line once stripped

\* The rows the ledgers are made of, by role.
RowPool ==
    { [fecha |-> DS("slash", 26, 11, 2025), inicio |-> DS("slash", 1, 11, 2025),
       fin |-> DS("slash", 26, 11, 2025), item |-> Txt("2.5"), desc |-> ShortDesc,
       total |-> Num(1000), zona |-> Txt("Muelle 1")],
      [fecha |-> Timestamp(2025, 12, 18, 13, 5), inicio |-> DS("dash", 2025, 12, 19),
       fin |-> DS("dash", 2025, 12, 31), item |-> Txt(" 1.21 "), desc |-> TallDesc,
       total |-> Txt("60.000,00"), zona |-> Txt("Muelle 1")],
      [fecha |-> DS("dash", 12, 25, 2025), inicio |-> DS("slash", 18, 12, 2025),
       fin |-> DS("dot", 12, 25, 2025), item |-> Num(121), desc |-> HugeDesc,
       total |-> NaN, zona |-> NaN],
      [fecha |-> DS("dot", 31, 11, 2025), inicio |-> DS("slash", 1, 11, 2025),
       fin |-> Txt(""), item |-> Txt("1.2"), desc |-> TwoLineDesc,
       total |-> Txt("1500"), zona |-> Txt("Bodega")],
      [fecha |-> DS("slash", 12, 11, 2025), inicio |-> DS("slash", 20, 11, 2025),
       fin |-> DS("slash", 30, 11, 2025), item |-> Txt("1.21"), desc |-> PaddedDesc,
       total |-> Num(250), zona |-> Txt("Bodega")] }

\* The column layouts of the ledgers.
Schemas ==
    { <<"FECHA", "ID_ITEM", "ACTIVIDAD", "VALOR_TOTAL">>,
      <<"FECHA_INICIO", "FECHA_FIN", "ITEM", "ACTIVIDAD", "TOTAL">>,
      <<"FECHA", "FECHA_INICIO", "FECHA_FIN", "ID_ITEM", "ACTIVIDAD", "VALOR_TOTAL">>,
      <<"ZONA", "id_item", "ACTIVIDAD", "VALOR_TOTAL">>,
      <<"FECHA_INICIO", "ZONA", "ID_ITEM", "ACTIVIDAD", "VALOR_TOTAL">>,
      <<"FECHA", "INICIO", "COD_ITEM", "DESCRIPCION">>,
      <<"fecha", "ID_ITEM", "actividad", "valor_total">> }

RoleOf(name) ==
    LET u == UpperName(StripName(name))
    IN  CASE u \in {"FECHA"} -> "fecha"
          [] u \in {"FECHA_INICIO", "INICIO"} -> "inicio"
          [] u \in {"FECHA_FIN"} -> "fin"
          [] u \in {"ID_ITEM", "ITEM", "COD_ITEM"} -> "item"
          [] u \in {"ACTIVIDAD", "DESCRIPCION"} -> "desc"
          [] u \in {"VALOR_TOTAL", "TOTAL"} -> "total"
          [] OTHER -> "zona"

MakeLedger(schema, rows) ==
    [cols |-> schema,
     index |-> [i \in DOMAIN rows |-> i],
     data |-> [i \in DOMAIN rows |-> [j \in DOMAIN schema |-> rows[i][RoleOf(schema[j])]]]]

Ledgers ==
    {MakeLedger(sch, rows) :
        sch \in Schemas, rows \in UNION {[1..n -> RowPool] : n \in 0..MaxRows}}

StartInputs == {DS("slash", 11, 26, 2025), Txt("hoy")}
EndInputs == {DS("slash", 12, 18, 2025), DS("slash", 20, 11, 2025), Txt("")}

\* The number of lines the summary wraps into (at least one: the empty
\* summary is one line), and of the place of execution (0: no place found).
\* A summary of 27 lines ends 14 mm above the bottom limit: the place of
\* execution then runs over to the second page, and without it the title of
\* the table does.
SummaryLines == {1, 27}
LocationLines == {0, 2}

(***************************************************************************)
(* Calls of the helper functions, run on their own.  Each call is a frame: *)
(* the arguments, the locals and the returned value of one function.       *)
(***************************************************************************)
\* no call of _nb_lines is running
NoNbLines ==
    [pc |-> "none", w |-> 0, parts |-> <<>>, p |-> 0, i |-> 0, line |-> 0,
     lines |-> 0, total |-> 0, ret |-> 0]
\* no call of _infer_lugares_text is running
NoLugares == [pc |-> "none", df |-> EmptyDF, ret |-> <<>>]
\* no call of _to_date is running
NoToDate == [pc |-> "none", x |-> NoneCell, ret |-> NoDate]

(***************************************************************************)
(* State machine.                                                          *)
(***************************************************************************)
Init ==
    /\ pc = "idle"
    /\ bd \in Ledgers
    /\ fecha_inicio \in StartInputs
    /\ fecha_fin \in EndInputs
    /\ bd_filtrado = EmptyDF
    /\ err = "none"
    /\ y = 0
    /\ page = 0
    /\ auto_page_break = TRUE          \* set_auto_page_break(auto=True, ...)
    /\ b_margin = FooterMargin         \* ... margin=footer_margin)
    /\ old_apb = TRUE
    /\ old_bm = FooterMargin
    /\ row_i = 0
    /\ total_general = Flt(0)
    /\ drawn = <<>>
    /\ headers = <<>>
    /\ total_printed = NotPrinted
    /\ df_range = EmptyDF
    /\ service_calls = 0
    /\ resume = ""
    /\ nb = NoNbLines
    /\ lug = NoLugares
    /\ td = NoToDate

canvas == <<y, page, auto_page_break, b_margin>>
table == <<old_apb, old_bm, row_i, total_general, drawn, headers, total_printed>>
summary == <<df_range, service_calls, resume>>
inputs == <<bd, fecha_inicio, fecha_fin>>
calls == <<nb, lug, td>>

\* render_precosteo, lines 585-619: the first page and the narrative
\* sections, written under automatic page breaks.
RenderNarrative ==
    /\ pc = "idle"
    /\ \E n \in SummaryLines, k \in LocationLines :
          LET at == Narrative(n, k, auto_page_break, b_margin)
          IN  y' = at.y /\ page' = at.page
    /\ pc' = "filter"
    /\ UNCHANGED <<inputs, calls, bd_filtrado, err, auto_page_break, b_margin, table, summary>>

\* render_precosteo, line 622
FilterBdByRange ==
    /\ pc = "filter"
    /\ LET r == filter_bd_by_range(bd, fecha_inicio, fecha_fin)
       IN  IF r.err # "none"
           THEN /\ err' = r.err
                /\ pc' = "failed"
                /\ UNCHANGED bd_filtrado
           ELSE /\ bd_filtrado' = r.df
                /\ pc' = "filtered"
                /\ UNCHANGED err
    /\ UNCHANGED <<inputs, calls, canvas, table, summary>>

\* render_precosteo, lines 625-626
ExcludeItems ==
    /\ pc = "filtered"
    /\ bd_filtrado' = ExcludeIdItem(bd_filtrado)
    /\ pc' = "table"
    /\ UNCHANGED <<inputs, calls, err, canvas, table, summary>>

\* _write_section_table, lines 370-441: the early return on an empty frame,
\* or the title, the first table header and the switch to manual breaks.
WriteSectionTableBegin ==
    /\ pc = "table"
    /\ IF NRows(bd_filtrado) = 0
       THEN /\ pc' = "signature"
            /\ UNCHANGED <<canvas, table>>
       ELSE LET p0 == Pos(y + TitleGap, page)
                p1 == CellLn(p0, TitleH, auto_page_break, b_margin)
                p2 == _draw_table_header(p1, auto_page_break, b_margin)
            IN  /\ y' = p2.y
                /\ page' = p2.page
                /\ headers' = Append(headers, p2.page)
                /\ total_general' = Flt(0)
                /\ old_apb' = auto_page_break
                /\ old_bm' = b_margin
                /\ auto_page_break' = FALSE
                /\ b_margin' = b_margin
                /\ row_i' = 1
                /\ pc' = "rows"
                /\ UNCHANGED <<drawn, total_printed>>
    /\ UNCHANGED <<inputs, calls, bd_filtrado, err, summary>>

\* _write_section_table, lines 444-502: one iteration of the row loop.
DrawRow ==
    /\ pc = "rows"
    /\ row_i <= NRows(bd_filtrado)
    /\ LET colmap == _detect_table_columns(bd_filtrado)
           item == RowValue(bd_filtrado, row_i, colmap.item)
           desc == RowValue(bd_filtrado, row_i, colmap.descripcion)
           und == RowValue(bd_filtrado, row_i, colmap.unidad)
           cant == RowValue(bd_filtrado, row_i, colmap.cantidad)
           vunit == RowValue(bd_filtrado, row_i, colmap.v_unit)
           vtotal == RowValue(bd_filtrado, row_i, colmap.v_total)
           row_h == RowHeight(StripDesc(desc.v))
           brk == NeedsBreak(y, row_h, b_margin)
           at == IF brk
                 THEN BreakPage(Pos(y, page), auto_page_break, b_margin)
                 ELSE StayOnPage(Pos(y, page))
       IN  IF \E v \in {item, desc, und, cant, vunit, vtotal} : v.err # "none"
           THEN /\ err' = "KeyError"
                /\ pc' = "finally"
                /\ UNCHANGED <<y, page, row_i, total_general, drawn, headers>>
           ELSE /\ total_general' = Accumulate(total_general, vtotal.v)
                /\ headers' = headers \o at.hdr
                /\ page' = at.page
                /\ drawn' = Append(drawn,
                        [label |-> bd_filtrado.index[row_i], page |-> at.page,
                         y |-> at.y, h |-> row_h, broke |-> brk,
                         item |-> StripStr(StrOf(item.v)), vtotal |-> vtotal.v])
                /\ y' = at.y + row_h
                /\ row_i' = row_i + 1
                /\ pc' = "rows"
                /\ UNCHANGED err
    /\ UNCHANGED <<inputs, calls, bd_filtrado, auto_page_break, b_margin, old_apb, old_bm,
                   total_printed, summary>>

\* _write_section_table, lines 504-527: the total row.
DrawTotal ==
    /\ pc = "rows"
    /\ row_i > NRows(bd_filtrado)
    /\ LET brk == NeedsBreak(y, TotalH, b_margin)
           at == IF brk
                 THEN BreakPage(Pos(y, page), auto_page_break, b_margin)
                 ELSE StayOnPage(Pos(y, page))
       IN  /\ headers' = headers \o at.hdr
           /\ page' = at.page
           /\ y' = at.y + TotalH
    /\ total_printed' = total_general
    /\ pc' = "finally"
    /\ UNCHANGED <<inputs, calls, bd_filtrado, err, auto_page_break, b_margin, old_apb, old_bm,
                   row_i, total_general, drawn, summary>>

\* _write_section_table, lines 529-534: finally, then the exception goes on.
Finally ==
    /\ pc = "finally"
    /\ auto_page_break' = Restore(old_apb, auto_page_break, err)
    /\ b_margin' = Restore(old_bm, b_margin, err)
    /\ pc' = IF err # "none" THEN "failed" ELSE "signature"
    /\ UNCHANGED <<inputs, calls, bd_filtrado, err, y, page, table, summary>>

\* _write_precosteo_status_and_signature, lines 545-563
Signature ==
    /\ pc = "signature"
    /\ LET p0 == Pos(y + SignatureGap, page)
           p1 == IF p0.y + SignatureNeeded > PageH - b_margin THEN AddPage(p0) ELSE p0
       IN  /\ y' = p1.y + SignatureAdvance
           /\ page' = p1.page
    /\ pc' = "done"
    /\ UNCHANGED <<inputs, calls, bd_filtrado, err, auto_page_break, b_margin, table, summary>>

\* generate_resume, line 153: filter_by_date
FilterByDate ==
    /\ pc = "idle"
    /\ LET r == filter_by_date(bd, fecha_inicio, fecha_fin)
       IN  IF r.err # "none"
           THEN /\ err' = r.err
                /\ pc' = "resume_failed"
                /\ UNCHANGED df_range
           ELSE /\ df_range' = r.df
                /\ pc' = "resume_filtered"
                /\ UNCHANGED err
    /\ UNCHANGED <<inputs, calls, bd_filtrado, canvas, table, service_calls, resume>>

\* generate_resume, lines 155-156
ResumeEmpty ==
    /\ pc = "resume_filtered"
    /\ IsEmpty(df_range)
    /\ resume' = "No se encontraron actividades en el rango de fechas indicado."
    /\ pc' = "resume_done"
    /\ UNCHANGED <<inputs, calls, bd_filtrado, err, canvas, table, df_range, service_calls>>

\* generate_resume, lines 158-174: _build_payload_text_unique reads
\* df_range["ACTIVIDAD"]
BuildPayload ==
    /\ pc = "resume_filtered"
    /\ ~IsEmpty(df_range)
    /\ IF HasColumn(df_range, "ACTIVIDAD")
       THEN pc' = "resume_prompt" /\ UNCHANGED err
       ELSE pc' = "resume_failed" /\ err' = "KeyError"
    /\ UNCHANGED <<inputs, calls, bd_filtrado, canvas, table, summary>>

\* generate_resume, lines 176-181: the service answers
CallServiceOk ==
    /\ pc = "resume_prompt"
    /\ service_calls' = service_calls + 1
    /\ resume' = "<text>"
    /\ pc' = "resume_done"
    /\ UNCHANGED <<inputs, calls, bd_filtrado, err, canvas, table, df_range>>

\* generate_resume, lines 176-179: the service client raises; no handler
\* encloses the call, so the client's exception leaves generate_resume
CallServiceFails ==
    /\ pc = "resume_prompt"
    /\ service_calls' = service_calls + 1
    /\ err' = "ClientError"
    /\ pc' = "resume_failed"
    /\ UNCHANGED <<inputs, calls, bd_filtrado, canvas, table, df_range, resume>>

Next ==
    \/ RenderNarrative
    \/ FilterBdByRange
    \/ ExcludeItems
    \/ WriteSectionTableBegin
    \/ DrawRow
    \/ DrawTotal
    \/ Finally
    \/ Signature
    \/ FilterByDate
    \/ ResumeEmpty
    \/ BuildPayload
    \/ CallServiceOk
    \/ CallServiceFails

Spec == Init /\ [][Next]_vars

(***************************************************************************)
(* _nb_lines, statement by statement.  nb.line is the width of the line    *)
(* being filled (0 for "", in the units of TestWidth), nb.p the part and   *)
(* nb.i the word in hand.                                                  *)
(***************************************************************************)
MaxWords == 3
MaxParts == 2
\* widths of words: the empty word, a short word, a word wider than the
\* description column
WordWidths == {0, 300, 800}
\* the "\n"-separated parts: a part with one empty word is the empty part
PartPool ==
    UNION {[1..n -> WordWidths] : n \in 0..MaxWords} \ {<<0>>}
\* seven words that share a line only because a blank is narrower than 1 mm
SevenWords == << <<97, 97, 97, 97, 97, 97, 99>> >>
Texts == UNION {[1..n -> PartPool] : n \in 0..MaxParts} \cup {SevenWords}
\* the width of the description column inside its padding, and a narrow one
Widths == {WDesc - 2 * Pad, 520}

\* the state outside the rendering and the summary
NoRun ==
    /\ pc = "call"
    /\ bd = EmptyDF
    /\ fecha_inicio = NoneCell
    /\ fecha_fin = NoneCell
    /\ bd_filtrado = EmptyDF
    /\ err = "none"
    /\ y = 0
    /\ page = 0
    /\ auto_page_break = TRUE
    /\ b_margin = FooterMargin
    /\ old_apb = TRUE
    /\ old_bm = FooterMargin
    /\ row_i = 0
    /\ total_general = Flt(0)
    /\ drawn = <<>>
    /\ headers = <<>>
    /\ total_printed = NotPrinted
    /\ df_range = EmptyDF
    /\ service_calls = 0
    /\ resume = ""
run == <<pc, inputs, bd_filtrado, err, canvas, table, summary>>

InitNbLines ==
    /\ NoRun
    /\ \E w \in Widths, parts \in Texts :
          nb = [NoNbLines EXCEPT !.pc = "entry", !.w = w, !.parts = parts]
    /\ lug = NoLugares
    /\ td = NoToDate

\* lines 150-158: None and "" count one line; otherwise split on "\n"
NbLinesEnter ==
    /\ nb.pc = "entry"
    /\ nb' = IF nb.parts = <<>>
             THEN [nb EXCEPT !.pc = "returned", !.ret = 1]
             ELSE [nb EXCEPT !.pc = "part", !.p = 1, !.total = 0]
    /\ UNCHANGED <<run, lug, td>>

\* lines 159-166: the next part; an empty part counts one line
NbLinesPart ==
    /\ nb.pc = "part"
    /\ nb.p <= Len(nb.parts)
    /\ nb' = IF nb.parts[nb.p] = <<>>
             THEN [nb EXCEPT !.total = nb.total + 1, !.p = nb.p + 1]
             ELSE [nb EXCEPT !.pc = "words", !.i = 1, !.line = 0, !.lines = 1]
    /\ UNCHANGED <<run, lug, td>>

\* lines 167-173: one word of the part
NbLinesWord ==
    /\ nb.pc = "words"
    /\ nb.i <= Len(nb.parts[nb.p])
    /\ LET wd == nb.parts[nb.p][nb.i]
           test == TestWidth(nb.line, wd)
       IN  nb' = IF test <= WidthLimit(nb.w)
                 THEN [nb EXCEPT !.line = test, !.i = nb.i + 1]
                 ELSE [nb EXCEPT !.lines = nb.lines + 1, !.line = WordWidth(wd),
                                 !.i = nb.i + 1]
    /\ UNCHANGED <<run, lug, td>>

\* line 174: total += lines
NbLinesPartEnd ==
    /\ nb.pc = "words"
    /\ nb.i > Len(nb.parts[nb.p])
    /\ nb' = [nb EXCEPT !.pc = "part", !.total = nb.total + nb.lines, !.p = nb.p + 1]
    /\ UNCHANGED <<run, lug, td>>

\* line 175: return max(1, total)
NbLinesReturn ==
    /\ nb.pc = "part"
    /\ nb.p > Len(nb.parts)
    /\ nb' = [nb EXCEPT !.pc = "returned", !.ret = IF nb.total < 1 THEN 1 ELSE nb.total]
    /\ UNCHANGED <<run, lug, td>>

NextNbLines ==
    \/ NbLinesEnter
    \/ NbLinesPart
    \/ NbLinesWord
    \/ NbLinesPartEnd
    \/ NbLinesReturn

SpecNbLines == InitNbLines /\ [][NextNbLines]_vars

(***************************************************************************)
(* _infer_lugares_text on its own.                                         *)
(***************************************************************************)
MaxLugares == 3
ZoneA == <<"Z", "o", "n", "e", " ", "A">>
ZoneB == <<"Z", "o", "n", "e", " ", "B">>
\* the values of a location column; the last one is the blank U+00A0 alone
LugarValues ==
    { Str(ZoneA), Str(Lower(ZoneA)), Str(<<" ">> \o ZoneA \o <<" ">>), Str(ZoneB),
      Str(<<>>), Str(<<" ", "\t">>), NaN, Str(<<"N", "a", "N">>),
      Str(<<"Á", "R", "E", "A">>), Str(<<"á", "r", "e", "a">>),
      Str(ZoneA \o <<"\r">>), Str(<<" ">>) }
\* the column layouts of a location frame, and the column that holds the
\* places in each
LugarSchemas ==
    { [cols |-> <<"LUGAR">>, place |-> 1],
      [cols |-> <<"ZONA", " Lugar ">>, place |-> 2],
      [cols |-> <<"DESCRIPCION", "ubicación">>, place |-> 2],
      [cols |-> <<"ZONA", "OTRO">>, place |-> 1] }
MakeLugares(sch, vals) ==
    [cols |-> sch.cols,
     index |-> [i \in DOMAIN vals |-> i],
     data |-> [i \in DOMAIN vals |->
                 [j \in DOMAIN sch.cols |->
                     IF j = sch.place THEN vals[i] ELSE Str(<<"O", "t", "r", "o">>)]]]
LugarFrames ==
    {MakeLugares(sch, vals) :
        sch \in LugarSchemas, vals \in UNION {[1..n -> LugarValues] : n \in 0..MaxLugares}}
    \cup {EmptyDF}

InitLugares ==
    /\ NoRun
    /\ nb = NoNbLines
    /\ \E df \in LugarFrames : lug = [NoLugares EXCEPT !.pc = "entry", !.df = df]
    /\ td = NoToDate

\* lines 183-215: the whole call
InferLugaresText ==
    /\ lug.pc = "entry"
    /\ lug' = [lug EXCEPT !.pc = "returned", !.ret = _infer_lugares_text(lug.df)]
    /\ UNCHANGED <<run, nb, td>>

NextLugares == InferLugaresText

SpecLugares == InitLugares /\ [][NextLugares]_vars

(***************************************************************************)
(* The rendering and the summary on ledgers whose column names carry       *)
(* surrounding whitespace or differ only in letter case.                   *)
(***************************************************************************)
ColSchemas ==
    { <<" FECHA ", "ID_ITEM", "ACTIVIDAD", "VALOR_TOTAL">>,
      <<"FECHA", "ID_ITEM ", "ACTIVIDAD", " VALOR_TOTAL">>,
      <<"Fecha", "FECHA", "Item", "ACTIVIDAD", "VALOR_TOTAL">>,
      <<"FECHA", "ID_ITEM", "ACTIVIDAD", "VALOR_TOTAL">> }

LedgersCols ==
    {MakeLedger(sch, rows) :
        sch \in ColSchemas, rows \in UNION {[1..n -> RowPool] : n \in 0..MaxRows}}

InitCols ==
    /\ pc = "idle"
    /\ bd \in LedgersCols
    /\ fecha_inicio \in StartInputs
    /\ fecha_fin \in EndInputs
    /\ bd_filtrado = EmptyDF
    /\ err = "none"
    /\ y = 0
    /\ page = 0
    /\ auto_page_break = TRUE
    /\ b_margin = FooterMargin
    /\ old_apb = TRUE
    /\ old_bm = FooterMargin
    /\ row_i = 0
    /\ total_general = Flt(0)
    /\ drawn = <<>>
    /\ headers = <<>>
    /\ total_printed = NotPrinted
    /\ df_range = EmptyDF
    /\ service_calls = 0
    /\ resume = ""
    /\ nb = NoNbLines
    /\ lug = NoLugares
    /\ td = NoToDate

SpecCols == InitCols /\ [][Next]_vars

(***************************************************************************)
(* _to_date on its own, on the strings of three numeric parts.             *)
(***************************************************************************)
MaxPart == 32
\* the third part: a leap year, a common year, and a year of two digits
LastParts == {2024, 2025, 25}
DateStrings ==
    {DS(sep, a, b, c) :
        sep \in {"slash", "dash", "dot"}, a \in 1..MaxPart, b \in 1..MaxPart,
        c \in LastParts}

InitToDate ==
    /\ NoRun
    /\ nb = NoNbLines
    /\ lug = NoLugares
    /\ \E x \in DateStrings : td = [NoToDate EXCEPT !.pc = "entry", !.x = x]

\* lines 219-258: the whole call
ToDate ==
    /\ td.pc = "entry"
    /\ td' = [td EXCEPT !.pc = "returned", !.ret = _to_date(td.x)]
    /\ UNCHANGED <<run, nb, lug>>

NextToDate == ToDate

SpecToDate == InitToDate /\ [][NextToDate]_vars

(***************************************************************************)
(* Vocabulary of the properties.                                           *)
(***************************************************************************)
HasKey(df, keys) ==
    \E j \in DOMAIN df.cols, i \in DOMAIN keys : UpperName(StripName(df.cols[j])) = keys[i]
PairLedger(df) == HasKey(df, InicioKeys) /\ HasKey(df, FinKeys)
SingleDateLedger(df) == HasKey(df, FechaUnicaKeys) /\ ~PairLedger(df)
NoDateLedger(df) == ~HasKey(df, FechaUnicaKeys) /\ ~PairLedger(df)
RangeOk == _to_date(fecha_inicio) # NoDate /\ _to_date(fecha_fin) # NoDate
Inverted == RangeOk /\ DateOrd(_to_date(fecha_inicio)) > DateOrd(_to_date(fecha_fin))
Labels(df) == {df.index[n] : n \in DOMAIN df.index}
\* the rows of the result are rows of the ledger, in ledger order
RowsOfLedger(df) ==
    /\ df.cols = bd.cols
    /\ \A n \in DOMAIN df.index : df.index[n] \in 1..NRows(bd) /\ df.data[n] = bd.data[df.index[n]]
    /\ \A n, m \in DOMAIN df.index : n < m => df.index[n] < df.index[m]
\* the date of row i of the ledger in the column called col
RowDate(i, col) == _to_date(bd.data[i][ColIndex(bd, col)])
\* the rows of the ledger whose single date lies in [start, end]
InRangeRows ==
    LET col == FirstKey(bd.cols, FechaUnicaKeys)
        start == DateOrd(_to_date(fecha_inicio))
        end == DateOrd(_to_date(fecha_fin))
    IN  {i \in 1..NRows(bd) :
            /\ RowDate(i, col) # NoDate
            /\ start <= DateOrd(RowDate(i, col))
            /\ DateOrd(RowDate(i, col)) <= end}
\* the rows of the ledger whose own interval overlaps [start, end]
OverlapRows ==
    LET det == <<NoCol, FirstKey(bd.cols, InicioKeys), FirstKey(bd.cols, FinKeys)>>
        start == DateOrd(_to_date(fecha_inicio))
        end == DateOrd(_to_date(fecha_fin))
    IN  {i \in 1..NRows(bd) :
            /\ RowDate(i, det[2]) # NoDate
            /\ RowDate(i, det[3]) # NoDate
            /\ start <= DateOrd(RowDate(i, det[3]))
            /\ end >= DateOrd(RowDate(i, det[2]))}

(***************************************************************************)
(* Properties.                                                             *)
(***************************************************************************)

\* C1: in single-date mode with a normalizable range, filter_bd_by_range
\* keeps exactly the ledger rows whose date normalizes to a date d with
\* start <= d <= end, and no other row is ever drawn in the table.
C1_SingleDateInclusive ==
    (SingleDateLedger(bd) /\ RangeOk) =>
        /\ pc = "filtered" =>
              /\ RowsOfLedger(bd_filtrado)
              /\ Labels(bd_filtrado) = InRangeRows
        /\ \A k \in DOMAIN drawn : drawn[k].label \in InRangeRows

C1_Witness ==
    /\ pc = "filtered"
    /\ SingleDateLedger(bd) /\ RangeOk /\ ~Inverted
    /\ \E i \in Labels(bd_filtrado) :
          DateOrd(RowDate(i, FirstKey(bd.cols, FechaUnicaKeys))) = DateOrd(_to_date(fecha_fin))
    /\ \E i \in 1..NRows(bd) : i \notin Labels(bd_filtrado)

\* C2: no row whose item code (the stripped text of the column the item
\* role resolves to) is the excluded code "1.21" reaches the table renderer
\* or is drawn.
C2_ExcludedCodeNeverRendered ==
    /\ pc = "table" =>
          \A i \in 1..NRows(bd_filtrado) :
              LET v == RowValue(bd_filtrado, i, _detect_table_columns(bd_filtrado).item).v
              IN  StripStr(StrOf(v)) # ExcludedCode
    /\ \A k \in DOMAIN drawn : drawn[k].item # ExcludedCode

RECURSIVE SumParsed(_, _)
\* the sum of the totals that parse as numbers among the first n drawn rows
SumParsed(rows, n) ==
    IF n = 0 THEN Flt(0)
    ELSE LET p == ParseFloat(rows[n].vtotal)
         IN  IF p.ok THEN FAdd(SumParsed(rows, n - 1), p.f) ELSE SumParsed(rows, n - 1)

\* C3: the running total is at every row the sum of the parsed totals of
\* the rows drawn so far (an unparsable total leaves it as it was), the
\* printed grand total is that sum over all the rows of the table, and an
\* unparsable total never aborts the rendering.
C3_GrandTotal ==
    /\ pc = "rows" => total_general = SumParsed(drawn, Len(drawn))
    /\ total_printed # NotPrinted =>
          /\ total_printed = SumParsed(drawn, Len(drawn))
          /\ Len(drawn) = NRows(bd_filtrado)
    /\ (\E k \in DOMAIN drawn : ~ParseFloat(drawn[k].vtotal).ok) => err = "none"

C3_Witness ==
    /\ total_printed # NotPrinted
    /\ ~total_printed.nan /\ total_printed.v > 0
    /\ Len(drawn) >= 2
    /\ ~ParseFloat(drawn[1].vtotal).ok
    /\ ParseFloat(drawn[2].vtotal).ok

\* C4: every committed row ends at or above the printable bottom boundary,
\* or a page break immediately preceded its drawing.
C4_RowFitsOrBreak ==
    \A k \in DOMAIN drawn :
        \/ drawn[k].y + drawn[k].h <= PageH - b_margin
        \/ drawn[k].broke

C4_Witness ==
    /\ Len(drawn) >= 2
    /\ ~drawn[1].broke /\ drawn[1].y + drawn[1].h <= PageH - b_margin
    /\ drawn[2].broke

\* the range as the summary path reads it
RangeOkResume == ToDatetime(fecha_inicio) # NaT /\ ToDatetime(fecha_fin) # NaT
MissingRequired == ~HasColumn(bd, "FECHA") \/ ~HasColumn(bd, "ACTIVIDAD")
ResumeReturned == pc \in {"resume_filtered", "resume_prompt", "resume_done"}

\* C5 as stated: with a start or end that cannot be normalized, neither
\* filter_bd_by_range nor filter_by_date returns a result.
C5_UnparsableRangeIsFatal ==
    /\ ~RangeOk => pc # "filtered"
    /\ ~RangeOkResume => ~ResumeReturned

\* C5 as amended: with a start or end that cannot be normalized,
\* filter_by_date raises (ValueError, or KeyError when a required column is
\* missing, which is checked first) and returns nothing, while
\* filter_bd_by_range raises nothing and returns the ledger as it is; no
\* row is filtered out on either path.
C5_UnparsableRange ==
    /\ ~RangeOk =>
          /\ pc # "failed"
          /\ pc = "filtered" => bd_filtrado = bd
    /\ ~RangeOkResume =>
          /\ ~ResumeReturned
          /\ df_range = EmptyDF
          /\ service_calls = 0
          /\ pc = "resume_failed" =>
                err = (IF MissingRequired THEN "KeyError" ELSE "ValueError")

C5_Witness ==
    /\ pc = "filtered"
    /\ ~RangeOk
    /\ SingleDateLedger(bd)
    /\ \E i \in 1..NRows(bd) : RowDate(i, FirstKey(bd.cols, FechaUnicaKeys)) = NoDate
    /\ bd_filtrado = bd

\* C6 as stated: with start later than end, filter_bd_by_range returns
\* every row of the ledger.
C6_InvertedRangeIsNoOp ==
    (pc = "filtered" /\ Inverted) => bd_filtrado = bd

\* C6 as amended: with start later than end, filter_bd_by_range applies its
\* usual tests: in single-date mode it returns no row, in pair mode exactly
\* the rows whose two dates parse and satisfy start <= row.end and
\* end >= row.start, and the ledger as it is when it has no date columns.
C6_InvertedRange ==
    (pc = "filtered" /\ Inverted) =>
        /\ RowsOfLedger(bd_filtrado)
        /\ SingleDateLedger(bd) => NRows(bd_filtrado) = 0
        /\ PairLedger(bd) => Labels(bd_filtrado) = OverlapRows
        /\ NoDateLedger(bd) => bd_filtrado = bd

C6_Witness ==
    /\ pc = "filtered" /\ Inverted
    /\ PairLedger(bd)
    /\ NRows(bd_filtrado) >= 1
    /\ NRows(bd_filtrado) < NRows(bd)

\* C7: a ledger with a start/end pair is filtered by the pair, also when it
\* has a single date column: a row is kept exactly when its two dates parse
\* and start <= row.end and end >= row.start.
C7_PairOverlap ==
    (pc = "filtered" /\ PairLedger(bd) /\ RangeOk) =>
        /\ RowsOfLedger(bd_filtrado)
        /\ Labels(bd_filtrado) = OverlapRows

C7_Witness ==
    /\ pc = "filtered" /\ PairLedger(bd) /\ RangeOk /\ ~Inverted
    /\ HasKey(bd, FechaUnicaKeys)
    /\ \E i \in Labels(bd_filtrado) :
          ~KeepSingle(RowDate(i, "FECHA"), _to_date(fecha_inicio), _to_date(fecha_fin))
    /\ \E i \in 1..NRows(bd) :
          /\ i \notin Labels(bd_filtrado)
          /\ KeepSingle(RowDate(i, "FECHA"), _to_date(fecha_inicio), _to_date(fecha_fin))

\* C8: a ledger with neither a single date column nor a complete start/end
\* pair is returned as it is, for every requested range, without failure.
C8_NoDateColumnsUnchanged ==
    NoDateLedger(bd) =>
        /\ pc # "failed"
        /\ pc = "filtered" => bd_filtrado = bd

C8_Witness ==
    /\ pc = "filtered"
    /\ NoDateLedger(bd)
    /\ HasKey(bd, InicioKeys)
    /\ RangeOk /\ ~Inverted
    /\ NRows(bd) >= 1
    /\ bd_filtrado = bd

\* C9: a failure of the generative-text service never leaves
\* generate_resume as the raw exception of the service client.
C9_ServiceFailureWrapped ==
    (pc = "resume_failed" /\ service_calls > 0) => err # "ClientError"

\* C10: when the ledger lacks FECHA or ACTIVIDAD, generate_resume ends with
\* the missing-column error and the service is never called.
C10_MissingColumnBeforeService ==
    MissingRequired =>
        /\ service_calls = 0
        /\ ~ResumeReturned
        /\ pc = "resume_failed" => err = "KeyError"

C10_Witness ==
    /\ pc = "resume_failed"
    /\ err = "KeyError"
    /\ HasColumn(bd, "FECHA") /\ ~HasColumn(bd, "ACTIVIDAD")
    /\ RangeOkResume
    /\ service_calls = 0

\* the statements of _nb_lines return what the operator _nb_lines computes
NbLinesAgree == nb.pc = "returned" => nb.ret = _nb_lines(nb.w, nb.parts)

\* C11: every line that _nb_lines forms while counting is at most the width
\* W less the 2 mm safety margin, also when one word alone is wider than
\* that.
C11_LinesWithinWidth ==
    nb.pc = "words" => nb.line <= WidthLimit(nb.w)

\* the same for texts none of whose words is wider than the limit
C11_LinesOfFittingWords ==
    (nb.pc = "words" /\ \A q \in DOMAIN nb.parts : \A k \in DOMAIN nb.parts[q] :
                            nb.parts[q][k] <= nb.w - SafetyMargin)
        => nb.line <= WidthLimit(nb.w)

\* C12: _infer_lugares_text returns the values of the chosen column, each
\* trimmed, without the empty ones and the ones reading "nan", one for each
\* value up to letter case, in the spelling and at the position of its first
\* occurrence, joined with ", ".
C12_LugaresDedup ==
    /\ (lug.pc = "returned" /\ lug.df.cols = <<>>) => lug.ret = <<>>
    /\ (lug.pc = "returned" /\ lug.df.cols # <<>>) =>
           LET vals == ColumnValues(lug.df, LugaresColumn(lug.df.cols))
               trimmed(i) == Strip(StrChars(vals[i]))
               kept(i) == trimmed(i) # <<>> /\ Lower(trimmed(i)) # <<"n", "a", "n">>
               firsts == {i \in DOMAIN vals :
                             /\ kept(i)
                             /\ \A j \in 1..(i - 1) :
                                   kept(j) => Lower(trimmed(j)) # Lower(trimmed(i))}
               pos == SortedSeq(firsts)
           IN  lug.ret = Join(<<",", " ">>, [n \in DOMAIN pos |-> trimmed(pos[n])])

C12_Witness ==
    /\ lug.pc = "returned"
    /\ lug.df.cols = <<"ZONA", " Lugar ">>
    /\ ColumnValues(lug.df, " Lugar ") = <<Str(ZoneA), Str(Lower(ZoneA)), Str(ZoneB)>>
    /\ lug.ret = <<"Z", "o", "n", "e", " ", "A", ",", " ", "Z", "o", "n", "e", " ", "B">>

\* C13: no data row is drawn past the printable bottom boundary: every row
\* drawn at cursor y with height row_h has y + row_h <= page height minus
\* bottom margin, whatever the length of its description.
C13_NoRowPastBottom ==
    \A k \in DOMAIN drawn : drawn[k].y + drawn[k].h <= PageH - b_margin

\* the same for the rows that fit below a freshly drawn table header
C13_FittingRowsAboveBottom ==
    \A k \in DOMAIN drawn :
        drawn[k].h <= PageH - b_margin - (NewPageY + 3 * BarH)
            => drawn[k].y + drawn[k].h <= PageH - b_margin

\* C14: whenever _write_section_table has finished, by returning, by
\* returning early on an empty ledger or by raising while it draws, the
\* automatic page-break flag and the bottom margin are what they were when
\* it started; the flag is off only from the start of the row drawing to
\* that restoration.
C14_PageBreakRestored ==
    /\ pc \in {"signature", "done", "failed"} =>
          /\ auto_page_break = TRUE
          /\ b_margin = FooterMargin
    /\ ~auto_page_break => pc \in {"rows", "finally"}
    /\ pc \in {"rows", "finally"} => (old_apb = TRUE /\ old_bm = FooterMargin)

C14_Witness ==
    /\ pc = "failed"
    /\ err = "KeyError"
    /\ headers # <<>>
    /\ Len(drawn) < NRows(bd_filtrado)
    /\ auto_page_break = TRUE
    /\ b_margin = FooterMargin

\* the labels of the rows drawn so far, in drawing order
DrawnLabels == [k \in DOMAIN drawn |-> drawn[k].label]
\* where the table was before row k was drawn: below the first header, or
\* at the end of row k - 1
Before(k) ==
    IF k = 1 THEN [page |-> headers[1], y |-> 0]
    ELSE [page |-> drawn[k - 1].page, y |-> drawn[k - 1].y + drawn[k - 1].h]

\* C15: every row of the filtered ledger is drawn exactly once and in
\* ledger order, and every page break taken in the table is followed by the
\* table header on the new page before the row that caused it, which is
\* then drawn below that header; a page break skips or repeats no row.
C15_RowsOnceInOrder ==
    /\ DrawnLabels = SubSeq(bd_filtrado.index, 1, Len(drawn))
    /\ pc = "rows" => Len(drawn) = row_i - 1
    /\ pc \in {"signature", "done"} => Len(drawn) = NRows(bd_filtrado)
    /\ \A k \in DOMAIN drawn :
          IF drawn[k].broke
          THEN /\ drawn[k].page = Before(k).page + 1
               /\ drawn[k].y = NewPageY + 3 * BarH
               /\ \E n \in DOMAIN headers : headers[n] = drawn[k].page
          ELSE /\ drawn[k].page = Before(k).page
               /\ k > 1 => drawn[k].y = Before(k).y
    /\ \A n, m \in DOMAIN headers : n < m => headers[n] < headers[m]
    /\ pc = "rows" =>
          Len(headers) = 1 + Cardinality({k \in DOMAIN drawn : drawn[k].broke})

C15_Witness ==
    /\ pc = "done"
    /\ Len(drawn) = 2
    /\ DrawnLabels = <<1, 2>>
    /\ ~drawn[1].broke
    /\ drawn[2].broke
    /\ headers = <<drawn[1].page, drawn[2].page>>

\* a string a/b/yyyy or a-b-yyyy has been read
ThreePartRead ==
    td.pc = "returned" /\ td.x.k \in {"slash", "dash"} /\ FourDigits(td.x.c)
DayFirst == [y |-> td.x.c, m |-> td.x.b, d |-> td.x.a]
MonthFirst == [y |-> td.x.c, m |-> td.x.a, d |-> td.x.b]

\* C16 as stated: for a string a/b/yyyy (slash or dash, four-digit year
\* last) _to_date returns day a, month b when both are at most 12 and when
\* a is above 12, returns month a, day b when b is above 12 and a is not,
\* and returns null when both are above 12.
C16_DayFirstTieBreak ==
    ThreePartRead =>
        /\ (td.x.a <= 12 /\ td.x.b <= 12) => td.ret = DayFirst
        /\ (td.x.a > 12 /\ td.x.b <= 12) => td.ret = DayFirst
        /\ (td.x.a <= 12 /\ td.x.b > 12) => td.ret = MonthFirst
        /\ (td.x.a > 12 /\ td.x.b > 12) => td.ret = NoDate

\* C16 as amended: _to_date reads a/b/yyyy as day a, month b when both are
\* at most 12 and when a is above 12, and as month a, day b when b is above
\* 12 and a is not; it returns the date so read when that is a date of the
\* calendar and null when it is not, so null when both are above 12.
C16_DayFirstWhenADate ==
    ThreePartRead =>
        LET reading == IF td.x.a <= 12 /\ td.x.b > 12 THEN MonthFirst ELSE DayFirst
        IN  IF ValidDate(reading.y, reading.m, reading.d)
            THEN td.ret = reading
            ELSE td.ret = NoDate

C16_Witness ==
    /\ td.pc = "returned"
    /\ td.x = DS("slash", 3, 4, 2025)
    /\ td.ret = [y |-> 2025, m |-> 4, d |-> 3]

\* the roles of _detect_table_columns
TableRoles == {"item", "descripcion", "unidad", "cantidad", "v_unit", "v_total"}

\* C17: every column identifier that _detect_date_columns or
\* _detect_table_columns resolves is the name of a column of the ledger it
\* was given, and no lookup by a resolved identifier fails, whatever the
\* column names of the ledger.
C17_ResolvedColumnsExist ==
    /\ (pc \in {"filtered", "failed"} /\ RangeOk) =>
          \A n \in 1..3 :
              _detect_date_columns(bd)[n] # NoCol
                  => HasColumn(bd, _detect_date_columns(bd)[n])
    /\ pc \in {"rows", "finally"} =>
          \A role \in TableRoles :
              _detect_table_columns(bd_filtrado)[role] # NoCol
                  => HasColumn(bd_filtrado, _detect_table_columns(bd_filtrado)[role])
    /\ pc \in {"failed", "finally"} => err # "KeyError"

\* the same for ledgers none of whose column names carries surrounding
\* whitespace
C17_ResolvedWhenStripped ==
    (\A j \in DOMAIN bd.cols : StripName(bd.cols[j]) = bd.cols[j]) =>
        C17_ResolvedColumnsExist

====
